---- MODULE Spec2Model ----
(***************************************************************************)
(* Model of simulation.py: the Drude / Fresnel reflectance calculator and  *)
(* its console front end.                                                  *)
(*                                                                         *)
(* Numbers.  A Python / numpy number is a record [k, re, im, den]:         *)
(*   k = "fin"      the exact value (re + i*im)/den, den > 0, in lowest    *)
(*                  terms (a real number has im = 0);                      *)
(*   k = "nan"      float('nan');                                          *)
(*   k = "inf"      float('inf') (re = 1) or float('-inf') (re = -1);      *)
(*   k = "nonfinite" a numpy result with an inf or nan component;          *)
(*   k = "near"     a float within rounding of (re + i*im)/den and not     *)
(*                  equal to zero: cos(radians(90)) = 6.1e-17 is "near" 0, *)
(*                  and so is what is computed from it;                    *)
(*   k = "inexact"  a float this exact arithmetic does not determine: the  *)
(*                  sine or cosine of an angle other than 0 or 90 degrees, *)
(*                  the square root of a non-square, and what is computed  *)
(*                  from them.                                             *)
(* Arithmetic on "fin" values is exact rational arithmetic: rounding,      *)
(* overflow, underflow and signed zeros of IEEE doubles are not modelled.   *)
(*                                                                         *)
(* Units.  Angular frequencies are held in units of 2*PI*c/(1e-9 m)        *)
(* (about 1.885e18 rad/s), so that 2*PI*c/(lambda_nm*1e-9) is 1/lambda_nm. *)
(* The Drude formula depends only on ratios of frequencies, so it reads    *)
(* the same in these units.                                                *)
(***************************************************************************)
EXTENDS Integers, Sequences, FiniteSets, TLC

VARIABLES pc,        \* control point of the running function
          call,      \* the function under evaluation and its arguments
          result,    \* what the call returned or raised
          plotted,   \* the plt.plot calls made so far: <<x, y>> pairs
          frame,     \* metal_info's locals in the innermost activation
          depth,     \* number of metal_info activations below the innermost
          attempt,   \* entries read since the menu was last printed
          mainv      \* main's locals

vars == <<pc, call, result, plotted, frame, depth, attempt, mainv>>

\* ------------------------------------------------------------------ bounds

MaxNum == 4       \* numerators of the numeric inputs range over -MaxNum..MaxNum
MaxDenExp == 3    \* denominators of permittivity inputs are 2^0 .. 2^MaxDenExp
MaxDepth == 2     \* metal_info re-enters itself at most this many times

\* ------------------------------------------------------- exact arithmetic

Abs(n) == IF n < 0 THEN -n ELSE n

RECURSIVE GCD(_, _)
GCD(a, b) == IF b = 0 THEN a ELSE GCD(b, a % b)

RECURSIVE Pow(_, _)
Pow(b, e) == IF e = 0 THEN 1 ELSE b * Pow(b, e - 1)

\* (re + i*im)/den in lowest terms, den # 0, of kind k
Num(k, re, im, den) ==
    LET g == GCD(GCD(Abs(re), Abs(im)), Abs(den))
        s == IF den < 0 THEN -1 ELSE 1
    IN  [k |-> k, re |-> (s * re) \div g, im |-> (s * im) \div g,
         den |-> (s * den) \div g]

Fin(re, im, den) == Num("fin", re, im, den)
Rat(n, d) == Fin(n, 0, d)
Zero == Rat(0, 1)
One == Rat(1, 1)
Tiny == Num("near", 0, 0, 1)
NaN == [k |-> "nan", re |-> 0, im |-> 0, den |-> 1]
PosInf == [k |-> "inf", re |-> 1, im |-> 0, den |-> 1]
NegInf == [k |-> "inf", re |-> -1, im |-> 0, den |-> 1]
NonFinite == [k |-> "nonfinite", re |-> 0, im |-> 0, den |-> 1]
Inexact == [k |-> "inexact", re |-> 0, im |-> 0, den |-> 1]

IsFin(x) == x.k = "fin"
IsNum(x) == x.k \in {"fin", "near"}
IsNonFinite(x) == x.k \in {"nan", "inf", "nonfinite"}
IsZero(x) == IsFin(x) /\ x.re = 0 /\ x.im = 0
IsTiny(x) == x.k = "near" /\ x.re = 0 /\ x.im = 0
IsReal(x) == IsFin(x) /\ x.im = 0
Kind(a, b) == IF IsFin(a) /\ IsFin(b) THEN "fin" ELSE "near"

\* a + b, a - b, a * b on floats and complex numbers.  A non-finite operand
\* gives a non-finite result in every use the program makes of them; a sum
\* of inexactly known terms that cancels is not determined.
Add(a, b) ==
    IF IsNonFinite(a) \/ IsNonFinite(b) THEN NonFinite
    ELSE IF ~IsNum(a) \/ ~IsNum(b) THEN Inexact
    ELSE IF IsZero(a) THEN b
    ELSE IF IsZero(b) THEN a
    ELSE LET re == a.re * b.den + b.re * a.den
             im == a.im * b.den + b.im * a.den
         IN  IF Kind(a, b) = "near" /\ re = 0 /\ im = 0 THEN Inexact
             ELSE Num(Kind(a, b), re, im, a.den * b.den)

Neg(a) == IF IsNum(a) THEN Num(a.k, -a.re, -a.im, a.den) ELSE a

Sub(a, b) == Add(a, Neg(b))

Mul(a, b) ==
    IF IsNonFinite(a) \/ IsNonFinite(b) THEN NonFinite
    ELSE IF ~IsNum(a) \/ ~IsNum(b) THEN Inexact
    ELSE IF IsZero(a) \/ IsZero(b) THEN Zero
    ELSE Num(Kind(a, b), a.re * b.re - a.im * b.im, a.re * b.im + a.im * b.re,
             a.den * b.den)

\* a / b for numbers a and b, b not zero and not tiny
Quot(a, b) ==
    IF IsZero(a) THEN Zero
    ELSE IF IsTiny(b) THEN Inexact
    ELSE Num(Kind(a, b),
             (a.re * b.re + a.im * b.im) * b.den,
             (a.im * b.re - a.re * b.im) * b.den,
             a.den * (b.re * b.re + b.im * b.im))

\* numpy scalar division: dividing by zero warns and gives inf or nan
NpDiv(a, b) ==
    IF IsNonFinite(a) \/ IsNonFinite(b) \/ IsZero(b) THEN NonFinite
    ELSE IF ~IsNum(a) \/ ~IsNum(b) THEN Inexact
    ELSE Quot(a, b)

\* a Python exception leaving a function
Raise(exc) == [k |-> "raise", exc |-> exc]
IsRaise(x) == x.k = "raise"

\* Python float / complex division: a zero divisor raises before anything
\* else is looked at; a finite number over an infinity is zero
PyDiv(a, b) ==
    IF IsZero(b) THEN Raise("ZeroDivisionError")
    ELSE IF b.k = "inf" /\ IsFin(a) THEN Zero
    ELSE IF IsNonFinite(a) \/ IsNonFinite(b) THEN NonFinite
    ELSE IF ~IsNum(a) \/ ~IsNum(b) THEN Inexact
    ELSE Quot(a, b)

\* floor of the square root of n >= 0, by bisection on lo..hi
RECURSIVE ISqrtIn(_, _, _)
ISqrtIn(n, lo, hi) ==
    IF lo = hi THEN lo
    ELSE LET mid == (lo + hi + 1) \div 2
         IN  IF mid * mid <= n THEN ISqrtIn(n, mid, hi)
             ELSE ISqrtIn(n, lo, mid - 1)

ISqrt(n) == ISqrtIn(n, 0, IF n < 46340 THEN n ELSE 46340)

IsSquare(n) == n >= 0 /\ ISqrt(n) * ISqrt(n) = n

\* np.sqrt of a float64: nan (with a warning) for a negative argument
SqrtReal(x) ==
    IF IsNonFinite(x) THEN NonFinite
    ELSE IF ~IsFin(x) THEN Inexact
    ELSE IF x.re < 0 THEN NonFinite
    ELSE IF IsSquare(x.re) /\ IsSquare(x.den)
         THEN Rat(ISqrt(x.re), ISqrt(x.den))
         ELSE Inexact

\* np.sqrt of a complex128: the principal root (real part >= 0, and on the
\* negative real axis the root with imaginary part > 0), computed as csqrt
\* does: t = sqrt((|a| + hypot(a, b))/2), then (t, b/2t) or (|b|/2t, +-t).
\* The root of an inexactly known number is known only away from zero and
\* from the branch cut.
SqrtComplex(z) ==
    IF IsNonFinite(z) THEN NonFinite
    ELSE IF ~IsNum(z) THEN Inexact
    ELSE IF IsZero(z) THEN Zero
    ELSE IF ~IsFin(z) /\ z.im = 0 /\ z.re <= 0 THEN Inexact
    ELSE LET a == z.re * z.den
             b == z.im * z.den
             h2 == a * a + b * b
             h == ISqrt(h2)
             t2 == Abs(a) + h
             t == ISqrt(t2 \div 2)
         IN  IF h * h # h2 \/ t2 % 2 # 0 \/ t * t # t2 \div 2 THEN Inexact
             ELSE IF a >= 0 THEN Num(z.k, 2 * t * t, b, 2 * t * z.den)
             ELSE Num(z.k, Abs(b), (IF b < 0 THEN -1 ELSE 1) * 2 * t * t,
                      2 * t * z.den)

\* np.abs(r)**2
AbsSq(r) ==
    IF IsNonFinite(r) THEN NonFinite
    ELSE IF ~IsNum(r) THEN Inexact
    ELSE Num(r.k, r.re * r.re + r.im * r.im, 0, r.den * r.den)

\* a <= b on floats (every comparison with nan is False)
Leq(a, b) ==
    IF a.k = "nan" \/ b.k = "nan" THEN FALSE
    ELSE IF a.k = "inf" THEN a.re < 0 \/ (b.k = "inf" /\ b.re > 0)
    ELSE IF b.k = "inf" THEN b.re > 0
    ELSE a.re * b.den <= b.re * a.den

\* ------------------------------------------------------ the physics core

\* 2*PI*c/1e-9, the numerator of wavelength_to_omega, is the frequency unit
TwoPiC == One

\* the imaginary unit 1j
ImagUnit == Fin(0, 1, 1)

\* omega**2 + 1j*gamma*omega
DrudeDenominator(omega, gamma) ==
    Add(Mul(omega, omega), Mul(Mul(ImagUnit, gamma), omega))

\* Mutant: the numerator written with omega instead of omega_p.
dielectric_function_wrong_numerator(omega, omega_p, gamma, epsilon_inf) ==
    LET q == PyDiv(Mul(omega, omega), DrudeDenominator(omega, gamma))
    IN  IF IsRaise(q) THEN q ELSE Sub(epsilon_inf, q)

\* Mutant: the quotient taken as numpy takes it, without raising.
dielectric_function_numpy_division(omega, omega_p, gamma, epsilon_inf) ==
    Sub(epsilon_inf, NpDiv(Mul(omega_p, omega_p), DrudeDenominator(omega, gamma)))

\* epsilon_inf - (omega_p**2)/(omega**2 + 1j*gamma*omega), on Python floats:
\* the complex division raises ZeroDivisionError on a zero denominator
dielectric_function(omega, omega_p, gamma, epsilon_inf) ==
    LET q == PyDiv(Mul(omega_p, omega_p), DrudeDenominator(omega, gamma))
    IN  IF IsRaise(q) THEN q ELSE Sub(epsilon_inf, q)

\* 2*PI*c/(lambda_input*1e-9), on Python floats
wavelength_to_omega(lambda_input) == PyDiv(TwoPiC, lambda_input)

RightAngle == Rat(90, 1)

\* np.sin(np.radians(theta)), np.cos(np.radians(theta)), theta in degrees
SinDeg(theta) ==
    IF IsNonFinite(theta) THEN NonFinite
    ELSE IF theta = Zero THEN Zero
    ELSE IF theta = RightAngle THEN One
    ELSE Inexact

\* Mutant: the cosine taken of the angle in degrees, np.radians left out.
CosDeg_without_radians(theta) ==
    IF IsNonFinite(theta) THEN NonFinite
    ELSE IF theta = Zero THEN One
    ELSE Inexact

CosDeg(theta) ==
    IF IsNonFinite(theta) THEN NonFinite
    ELSE IF theta = Zero THEN One
    ELSE IF theta = RightAngle THEN Tiny
    ELSE Inexact

\* the locals of fresnel_coefficients
FresnelLocals(complex_dielectric_function, theta_i, dielectric_constant) ==
    LET n1 == SqrtReal(dielectric_constant)
        n2 == SqrtComplex(complex_dielectric_function)
        sin_theta_t == NpDiv(Mul(n1, SinDeg(theta_i)), n2)
        cos_theta_t == SqrtComplex(Sub(One, Mul(sin_theta_t, sin_theta_t)))
        cos_theta_i == CosDeg(theta_i)
    IN  [n1 |-> n1, n2 |-> n2, sin_theta_t |-> sin_theta_t,
         cos_theta_t |-> cos_theta_t, cos_theta_i |-> cos_theta_i,
         r_s_den |-> Add(Mul(n1, cos_theta_i), Mul(n2, cos_theta_t)),
         r_p_den |-> Add(Mul(n2, cos_theta_i), Mul(n1, cos_theta_t)),
         r_s_num |-> Sub(Mul(n1, cos_theta_i), Mul(n2, cos_theta_t)),
         r_p_num |-> Sub(Mul(n1, cos_theta_t), Mul(n2, cos_theta_i))]

\* Mutant: r_p divided by the difference instead of the sum.
fresnel_coefficients_rp_difference(complex_dielectric_function, theta_i, dielectric_constant) ==
    LET v == FresnelLocals(complex_dielectric_function, theta_i, dielectric_constant)
    IN  [k |-> "pair", R_s |-> AbsSq(NpDiv(v.r_s_num, v.r_s_den)),
         R_p |-> AbsSq(NpDiv(v.r_p_num,
                             Sub(Mul(v.n2, v.cos_theta_i), Mul(v.n1, v.cos_theta_t))))]

\* (R_s, R_p): numpy arithmetic throughout, so nothing raises
fresnel_coefficients(complex_dielectric_function, theta_i, dielectric_constant) ==
    LET v == FresnelLocals(complex_dielectric_function, theta_i, dielectric_constant)
    IN  [k |-> "pair", R_s |-> AbsSq(NpDiv(v.r_s_num, v.r_s_den)),
         R_p |-> AbsSq(NpDiv(v.r_p_num, v.r_p_den))]

\* --------------------------------------- calls of the three core functions

Null == [k |-> "null"]

RealInputs == {Rat(n, d) : n \in -MaxNum..MaxNum, d \in 1..2}
FloatInputs == RealInputs \cup {NaN, PosInf, NegInf}
EpsInputs ==
    {Fin(re, im, Pow(2, e)) : re \in -MaxNum..MaxNum, im \in -MaxNum..MaxNum,
                              e \in 0..MaxDenExp}
ThetaInputs == {Zero, Rat(45, 1), RightAngle}

CoreCalls ==
    [fn : {"dielectric_function"}, args : RealInputs \X RealInputs \X RealInputs \X RealInputs]
    \cup [fn : {"wavelength_to_omega"}, args : {<<x>> : x \in FloatInputs}]
    \cup [fn : {"fresnel_coefficients"}, args : EpsInputs \X ThetaInputs \X RealInputs]

Idle ==
    /\ plotted = <<>>
    /\ frame = Null
    /\ depth = 0
    /\ attempt = <<>>
    /\ mainv = Null

InitCore ==
    /\ pc = "call"
    /\ call \in CoreCalls
    /\ result = Null
    /\ Idle

Return(v) ==
    /\ result' = v
    /\ pc' = IF IsRaise(v) THEN "raised" ELSE "returned"
    /\ UNCHANGED <<call, plotted, frame, depth, attempt, mainv>>

CallDielectric ==
    /\ pc = "call"
    /\ call.fn = "dielectric_function"
    /\ Return(dielectric_function(call.args[1], call.args[2], call.args[3], call.args[4]))

CallWavelength ==
    /\ pc = "call"
    /\ call.fn = "wavelength_to_omega"
    /\ Return(wavelength_to_omega(call.args[1]))

CallFresnel ==
    /\ pc = "call"
    /\ call.fn = "fresnel_coefficients"
    /\ Return(fresnel_coefficients(call.args[1], call.args[2], call.args[3]))

NextCore == CallDielectric \/ CallWavelength \/ CallFresnel

SpecCore == InitCore /\ [][NextCore]_vars

\* ------------------------------------------------ plot_reflection_vs_angle

SampleCount == 1000

\* Mutant: the grid built as np.linspace(..., endpoint=False) builds it.
linspace_without_endpoint(start, stop, num) ==
    LET step == Quot(Sub(stop, start), Rat(num, 1))
    IN  [i \in 1..num |-> Add(start, Mul(Rat(i - 1, 1), step))]

\* np.linspace(start, stop, num), num > 1: start + i*step for i = 0..num-1
\* with step = (stop - start)/(num - 1), and the last sample set to stop
linspace(start, stop, num) ==
    LET step == Quot(Sub(stop, start), Rat(num - 1, 1))
    IN  [i \in 1..num |->
            IF i = num THEN stop ELSE Add(start, Mul(Rat(i - 1, 1), step))]

\* the for loop: one fresnel_coefficients call per angle, in grid order, the
\* incident medium left at its default dielectric_constant=1.0
SweepValues(epsilon, angles) ==
    [i \in 1..Len(angles) |-> fresnel_coefficients(epsilon, angles[i], One)]

SweepOmegaP == {Zero, Rat(2, 1)}
SweepGamma == {Zero, One}
SweepEpsilonInf == {Rat(n, 1) : n \in -MaxNum..MaxNum}
SweepWavelength == {One, Rat(1, 2), Zero, Rat(-1, 1), PosInf, NaN}
SweepAngle == {Zero, RightAngle}

SweepCalls ==
    [fn : {"plot_reflection_vs_angle"},
     args : [omega_p : SweepOmegaP, gamma : SweepGamma,
             epsilon_inf : SweepEpsilonInf, wavelength_nm : SweepWavelength,
             angle_range : SweepAngle \X SweepAngle]]

InitSweep ==
    /\ pc = "call"
    /\ call \in SweepCalls
    /\ result = Null
    /\ Idle

SweepOmega == wavelength_to_omega(call.args.wavelength_nm)
SweepEpsilon ==
    dielectric_function(SweepOmega, call.args.omega_p, call.args.gamma,
                        call.args.epsilon_inf)

\* line 135 raises: the exception leaves plot_reflection_vs_angle
SweepConversionRaises ==
    /\ pc = "call"
    /\ IsRaise(SweepOmega)
    /\ pc' = "raised"
    /\ result' = SweepOmega
    /\ UNCHANGED <<call, plotted, frame, depth, attempt, mainv>>

\* line 136 raises
SweepDielectricRaises ==
    /\ pc = "call"
    /\ ~IsRaise(SweepOmega)
    /\ IsRaise(SweepEpsilon)
    /\ pc' = "raised"
    /\ result' = SweepEpsilon
    /\ UNCHANGED <<call, plotted, frame, depth, attempt, mainv>>

\* lines 135-155 run to the end: both curves are handed to plt.plot
SweepPlots ==
    /\ pc = "call"
    /\ ~IsRaise(SweepOmega)
    /\ ~IsRaise(SweepEpsilon)
    /\ \E angles \in {linspace(call.args.angle_range[1], call.args.angle_range[2],
                                SampleCount)} :
       \E values \in {SweepValues(SweepEpsilon, angles)} :
         LET R_s_values == [i \in 1..SampleCount |-> values[i].R_s]
             R_p_values == [i \in 1..SampleCount |-> values[i].R_p]
         IN  /\ frame' = [k |-> "plot_reflection_vs_angle", omega |-> SweepOmega,
                          epsilon |-> SweepEpsilon]
             /\ plotted' = <<<<angles, R_s_values>>, <<angles, R_p_values>>>>
    /\ pc' = "returned"
    /\ result' = [k |-> "None"]
    /\ UNCHANGED <<call, depth, attempt, mainv>>

NextSweep == SweepConversionRaises \/ SweepDielectricRaises \/ SweepPlots

SpecSweep == InitSweep /\ [][NextSweep]_vars

\* ------------------------------------------------------ the console front end

\* Text typed at a prompt is a sequence of characters.
Digits == {"0", "1", "2", "3", "4", "5", "6", "7", "8", "9"}

DigitValue(c) ==
    CASE c = "0" -> 0 [] c = "1" -> 1 [] c = "2" -> 2 [] c = "3" -> 3
      [] c = "4" -> 4 [] c = "5" -> 5 [] c = "6" -> 6 [] c = "7" -> 7
      [] c = "8" -> 8 [] c = "9" -> 9

RECURSIVE DigitsValue(_)
DigitsValue(s) ==
    IF s = <<>> THEN 0
    ELSE 10 * DigitsValue(SubSeq(s, 1, Len(s) - 1)) + DigitValue(s[Len(s)])

AllDigits(s) == \A i \in 1..Len(s) : s[i] \in Digits
Signed(s) == Len(s) > 0 /\ s[1] \in {"+", "-"}
Unsigned(s) == IF Signed(s) THEN Tail(s) ELSE s
SignOf(s) == IF Signed(s) /\ s[1] = "-" THEN -1 ELSE 1

\* int(text): an optional sign and decimal digits (surrounding blanks and
\* digit-group underscores, which int also takes, are not typed here)
ParseInt(s) ==
    LET u == Unsigned(s)
    IN  IF Len(u) > 0 /\ AllDigits(u)
        THEN [k |-> "int", v |-> SignOf(s) * DigitsValue(u)]
        ELSE Raise("ValueError")

\* float(text): an optional sign, then nan, inf or infinity, or digits with
\* at most one point and at least one digit (exponents are not typed here)
ParseFloat(s) ==
    LET u == Unsigned(s)
        dots == {i \in 1..Len(u) : u[i] = "."}
        dot == IF dots = {} THEN Len(u) + 1 ELSE CHOOSE i \in dots : TRUE
        whole == SubSeq(u, 1, dot - 1)
        frac == SubSeq(u, dot + 1, Len(u))
    IN  IF u = <<"n", "a", "n">> THEN NaN
        ELSE IF u \in {<<"i", "n", "f">>, <<"i", "n", "f", "i", "n", "i", "t", "y">>}
             THEN (IF SignOf(s) < 0 THEN NegInf ELSE PosInf)
        ELSE IF /\ Cardinality(dots) <= 1
                /\ AllDigits(whole) /\ AllDigits(frac)
                /\ Len(whole) + Len(frac) > 0
             THEN Rat(SignOf(s) * (DigitsValue(whole) * Pow(10, Len(frac))
                                   + DigitsValue(frac)),
                      Pow(10, Len(frac)))
        ELSE Raise("ValueError")

\* a float literal m * 10^e too large for the exact arithmetic above
Sci(m, e) == [k |-> "sci", m |-> m, e |-> e]

Gold == <<"g", "o", "l", "d">>
Silver == <<"s", "i", "l", "v", "e", "r">>
Copper == <<"c", "o", "p", "p", "e", "r">>
Aluminum == <<"a", "l", "u", "m", "i", "n", "u", "m">>
Nickel == <<"n", "i", "c", "k", "e", "l">>

\* the table of Drude parameters, keyed by metal name
preset_metals(metal_name) ==
    CASE metal_name = Gold ->
           [omega_p |-> Sci(137, 14), gamma |-> Sci(105, 12), epsilon_inf |-> Rat(984, 100)]
      [] metal_name = Silver ->
           [omega_p |-> Sci(138, 14), gamma |-> Sci(273, 11), epsilon_inf |-> Rat(37, 10)]
      [] metal_name = Copper ->
           [omega_p |-> Sci(132, 14), gamma |-> Sci(122, 12), epsilon_inf |-> Rat(108, 10)]
      [] metal_name = Aluminum ->
           [omega_p |-> Sci(224, 14), gamma |-> Sci(121, 12), epsilon_inf |-> Rat(1, 1)]
      [] metal_name = Nickel ->
           [omega_p |-> Sci(183, 14), gamma |-> Sci(158, 13), epsilon_inf |-> Rat(1, 1)]

metals == <<Gold, Silver, Copper, Aluminum, Nickel>>

\* Mutant: the list indexed with choice instead of choice - 1.
PresetName_unshifted(choice) == metals[(choice % Len(metals)) + 1]

\* metals[choice - 1], for choice in 1..5 (the list is 0-based in the source)
PresetName(choice) == metals[choice]

\* what metal_info returns: (metal_name, omega_p, gamma, epsilon_inf)
MetalTuple(f) == <<f.metal_name, f.omega_p, f.gamma, f.epsilon_inf>>

Unbound == [k |-> "unbound"]
FreshFrame ==
    [k |-> "metal_info", choice |-> Unbound, metal_name |-> Unbound,
     omega_p |-> Unbound, gamma |-> Unbound, epsilon_inf |-> Unbound]

MenuEntries ==
    {<<"x">>, <<"2", ".", "5">>, <<"-", "1">>}
        \cup {<<d>> : d \in {"0", "1", "2", "3", "4", "5", "6", "7"}}
NameEntries == {<<"x">>, <<"7">>}
NumberEntries ==
    {<<"x">>, <<>>, <<"n", "a", "n">>, <<"i", "n", "f">>, <<"-", "1">>, <<"0">>,
     <<"2", ".", "5">>, <<"7">>}

Init ==
    /\ pc = "metal_info_choice"
    /\ call = <<>>
    /\ result = Null
    /\ plotted = <<>>
    /\ frame = FreshFrame
    /\ depth = 0
    /\ attempt = <<>>
    /\ mainv = [k |-> "main", metal |-> Unbound, entry |-> Unbound,
                wavelength_nm |-> Unbound]

\* metal_info returns f's tuple to main through every activation below
MetalInfoReturns(f) ==
    /\ frame' = f
    /\ depth' = 0
    /\ mainv' = [mainv EXCEPT !.metal = MetalTuple(f)]
    /\ pc' = "main_wavelength"

\* return metal_info(): a new activation, with locals of its own
MetalInfoReenters ==
    /\ depth < MaxDepth
    /\ depth' = depth + 1
    /\ frame' = FreshFrame
    /\ attempt' = <<>>
    /\ pc' = "metal_info_choice"
    /\ UNCHANGED mainv

\* lines 91-108 and, for a preset, 120-129
ReadChoice(e) ==
    /\ pc = "metal_info_choice"
    /\ LET c == ParseInt(e)
       IN  IF IsRaise(c) \/ (~IsRaise(c) /\ (c.v < 1 \/ c.v > 6))
           THEN UNCHANGED <<frame, depth, attempt, mainv, pc>>
           ELSE IF c.v = 6
           THEN /\ frame' = [frame EXCEPT !.choice = c.v]
                /\ attempt' = <<e>>
                /\ pc' = "metal_info_name"
                /\ UNCHANGED <<depth, mainv>>
           ELSE /\ attempt' = <<e>>
                /\ LET name == PresetName(c.v)
                   IN  MetalInfoReturns(
                           [frame EXCEPT !.choice = c.v,
                                         !.metal_name = name,
                                         !.omega_p = preset_metals(name).omega_p,
                                         !.gamma = preset_metals(name).gamma,
                                         !.epsilon_inf = preset_metals(name).epsilon_inf])
    /\ UNCHANGED <<call, result, plotted>>

\* line 112
ReadName(e) ==
    /\ pc = "metal_info_name"
    /\ frame' = [frame EXCEPT !.metal_name = e]
    /\ attempt' = Append(attempt, e)
    /\ pc' = "metal_info_omega_p"
    /\ UNCHANGED <<call, result, plotted, depth, mainv>>

\* line 114, and 117-119 when float raises
ReadOmegaP(e) ==
    /\ pc = "metal_info_omega_p"
    /\ IF IsRaise(ParseFloat(e)) THEN MetalInfoReenters
       ELSE /\ frame' = [frame EXCEPT !.omega_p = ParseFloat(e)]
            /\ attempt' = Append(attempt, e)
            /\ pc' = "metal_info_gamma"
            /\ UNCHANGED <<depth, mainv>>
    /\ UNCHANGED <<call, result, plotted>>

\* line 115, and 117-119 when float raises
ReadGamma(e) ==
    /\ pc = "metal_info_gamma"
    /\ IF IsRaise(ParseFloat(e)) THEN MetalInfoReenters
       ELSE /\ frame' = [frame EXCEPT !.gamma = ParseFloat(e)]
            /\ attempt' = Append(attempt, e)
            /\ pc' = "metal_info_epsilon_inf"
            /\ UNCHANGED <<depth, mainv>>
    /\ UNCHANGED <<call, result, plotted>>

\* line 116, then 127-129, and 117-119 when float raises
ReadEpsilonInf(e) ==
    /\ pc = "metal_info_epsilon_inf"
    /\ IF IsRaise(ParseFloat(e)) THEN MetalInfoReenters
       ELSE /\ attempt' = Append(attempt, e)
            /\ MetalInfoReturns([frame EXCEPT !.epsilon_inf = ParseFloat(e)])
    /\ UNCHANGED <<call, result, plotted>>

\* lines 164-174: the wavelength loop and the call of plot_reflection_vs_angle
ReadWavelength(e) ==
    /\ pc = "main_wavelength"
    /\ LET w == ParseFloat(e)
       IN  IF IsRaise(w) \/ (~IsRaise(w) /\ Leq(w, Zero))
           THEN /\ mainv' = [mainv EXCEPT !.entry = e]
                /\ UNCHANGED <<pc, call>>
           ELSE /\ mainv' = [mainv EXCEPT !.entry = e, !.wavelength_nm = w]
                /\ call' = Append(call,
                       [fn |-> "plot_reflection_vs_angle",
                        args |-> [metal_name |-> mainv.metal[1],
                                  omega_p |-> mainv.metal[2],
                                  gamma |-> mainv.metal[3],
                                  epsilon_inf |-> mainv.metal[4],
                                  wavelength_nm |-> w]])
                /\ pc' = "done"
    /\ UNCHANGED <<result, plotted, frame, depth, attempt>>

Next ==
    \/ \E e \in MenuEntries : ReadChoice(e)
    \/ \E e \in NameEntries : ReadName(e)
    \/ \E e \in NumberEntries : ReadOmegaP(e)
    \/ \E e \in NumberEntries : ReadGamma(e)
    \/ \E e \in NumberEntries : ReadEpsilonInf(e)
    \/ \E e \in NumberEntries : ReadWavelength(e)

Spec == Init /\ [][Next]_vars

\* ------------------------------------------------- properties of the core

IsPositive(x) == IsReal(x) /\ x.re > 0
IsNegative(x) == IsReal(x) /\ x.re < 0
Done == pc \in {"returned", "raised"}
Called(fn) == Done /\ call.fn = fn

\* 0 <= x <= 1 for an exact real x
InUnitInterval(x) == IsReal(x) /\ 0 <= x.re /\ x.re <= x.den

\* |x - y| <= 1e-3 for a real x known exactly or to within rounding
Tolerance == Rat(1, 1000)
Within(x, y) ==
    /\ IsNum(x) /\ x.im = 0
    /\ Leq(Rat(x.re, x.den), Add(y, Tolerance))
    /\ Leq(Sub(y, Tolerance), Rat(x.re, x.den))

\* C2: dielectric_function called with omega = 0 and gamma = 0 ends in a
\* raised error (Python's ZeroDivisionError, the program's domain error) and
\* returns no value, whatever omega_p and epsilon_inf are.
C2_ZeroFrequencyRaises ==
    (Called("dielectric_function") /\ IsZero(call.args[1]) /\ IsZero(call.args[3]))
        => (pc = "raised" /\ result = Raise("ZeroDivisionError"))

C2_Witness ==
    /\ Called("dielectric_function")
    /\ IsZero(call.args[1]) /\ IsZero(call.args[2]) /\ IsZero(call.args[3])
    /\ ~IsZero(call.args[4])
    /\ pc = "raised"

\* C3: whenever a denominator of r_s or r_p is exactly zero, or n2 is zero in
\* the Snell division, fresnel_coefficients fails instead of returning a pair
\* that holds inf or nan.
C3_DegenerateDenominatorFails ==
    Called("fresnel_coefficients") =>
        LET v == FresnelLocals(call.args[1], call.args[2], call.args[3])
        IN  (IsZero(v.n2) \/ IsZero(v.r_s_den) \/ IsZero(v.r_p_den))
                => (pc = "raised" /\ IsRaise(result))

\* C4: wavelength_to_omega fails for every real lambda_nm <= 0 and returns a
\* strictly positive value for every real lambda_nm > 0.
C4_WavelengthValidated ==
    (Called("wavelength_to_omega") /\ IsFin(call.args[1])) =>
        /\ Leq(call.args[1], Zero) => pc = "raised"
        /\ IsPositive(call.args[1]) => (pc = "returned" /\ IsPositive(result))

\* C6: for omega_p = 0, gamma >= 0 and omega > 0 dielectric_function returns
\* exactly epsilon_inf, with zero imaginary part.
C6_NoPlasmaIsEpsilonInf ==
    (/\ Called("dielectric_function")
     /\ IsPositive(call.args[1])
     /\ IsZero(call.args[2])
     /\ ~IsNegative(call.args[3]))
        => (pc = "returned" /\ result = call.args[4] /\ result.im = 0)

C6_Witness ==
    /\ Called("dielectric_function")
    /\ IsPositive(call.args[1])
    /\ IsZero(call.args[2])
    /\ IsPositive(call.args[3])
    /\ ~IsZero(call.args[4])
    /\ result = call.args[4]

\* C7: at normal incidence, whenever a reflectance is defined, R_s equals
\* R_p and both lie in [0, 1].
C7_NormalIncidenceDegenerate ==
    (/\ Called("fresnel_coefficients")
     /\ call.args[2] = Zero
     /\ (IsFin(result.R_s) \/ IsFin(result.R_p)))
        => /\ result.R_s = result.R_p
           /\ InUnitInterval(result.R_s)
           /\ InUnitInterval(result.R_p)

C7_Witness ==
    /\ Called("fresnel_coefficients")
    /\ call.args[2] = Zero
    /\ call.args[1].im > 0
    /\ call.args[3] = One
    /\ IsPositive(result.R_s)
    /\ result.R_s # One
    /\ result.R_s = result.R_p

Less(a, b) == Leq(a, b) /\ a # b

\* the samples handed to the plot: equal length, the angle grid as x of both
\* curves, the i-th R_s and R_p computed from the i-th angle
SweepWellFormed ==
    /\ Len(plotted) = 2
    /\ plotted[1][1] = plotted[2][1]
    /\ LET angles == plotted[1][1]
           R_s_values == plotted[1][2]
           R_p_values == plotted[2][2]
       IN  /\ Len(angles) = SampleCount
           /\ Len(R_s_values) = SampleCount
           /\ Len(R_p_values) = SampleCount
           /\ angles[1] = call.args.angle_range[1]
           /\ angles[SampleCount] = call.args.angle_range[2]
           /\ \A i \in 1..(SampleCount - 1) : Less(angles[i], angles[i + 1])
           /\ \A i \in 1..SampleCount :
                /\ R_s_values[i] = fresnel_coefficients(frame.epsilon, angles[i], One).R_s
                /\ R_p_values[i] = fresnel_coefficients(frame.epsilon, angles[i], One).R_p

SweepReturned == pc = "returned" /\ call.fn = "plot_reflection_vs_angle"

\* C1 as claimed: for every angle range the sweep produces exactly N samples,
\* the first at angle_min, the last at angle_max, strictly ascending, the
\* i-th R_s/R_p belonging to the i-th angle.
C1_GridEveryRange == SweepReturned => SweepWellFormed

\* C1 as amended: the same for the program's N = 1000 and every angle range
\* with angle_min < angle_max.
C1_GridAscendingRange ==
    (SweepReturned /\ Less(call.args.angle_range[1], call.args.angle_range[2]))
        => SweepWellFormed

C1_Witness ==
    /\ SweepReturned
    /\ call.args.angle_range = <<Zero, RightAngle>>
    /\ SweepWellFormed
    /\ IsFin(plotted[1][2][1])
    /\ IsFin(plotted[2][2][1])
    /\ plotted[1][2][1] # plotted[1][2][SampleCount]

\* fresnel_coefficients meets one of its singular cases at this angle
FresnelSingular(epsilon, theta) ==
    LET v == FresnelLocals(epsilon, theta, One)
    IN  IsZero(v.n2) \/ IsZero(v.r_s_den) \/ IsZero(v.r_p_den)

\* C5: if the frequency conversion, the dielectric evaluation or the Fresnel
\* evaluation at any angle of the grid fails, the sweep fails as a whole and
\* no sequence of samples, with or without a nan entry, reaches the plot.
C5_FailurePropagates ==
    (Done /\ call.fn = "plot_reflection_vs_angle") =>
        /\ pc = "raised" => plotted = <<>>
        /\ pc = "returned" =>
             \A i \in 1..SampleCount :
                ~FresnelSingular(frame.epsilon, plotted[1][1][i])

\* ------------------------------------------ properties of the front end

MetalInfoReturned == pc \in {"main_wavelength", "done"}

\* C9: plot_reflection_vs_angle is invoked at most once, only after
\* metal_info has returned, and only with a wavelength_nm strictly greater
\* than 0.
C9_PlotOnlyPositiveWavelength ==
    /\ Len(call) <= 1
    /\ \A i \in 1..Len(call) :
         /\ MetalInfoReturned
         /\ mainv.metal # Unbound
         /\ Leq(Zero, call[i].args.wavelength_nm)
         /\ call[i].args.wavelength_nm # Zero

\* C10: metal_info returns only from an attempt whose menu choice is an
\* integer in 1..6; for 1..5 what it returns is the preset_metals entry of
\* gold, silver, copper, aluminum, nickel in that order; for 6 all three
\* numeric entries of that same attempt parsed and are what it returns.
C10_ReturnsChosenMetal ==
    MetalInfoReturned =>
        /\ Len(attempt) >= 1
        /\ ~IsRaise(ParseInt(attempt[1]))
        /\ LET choice == ParseInt(attempt[1]).v
               name == <<Gold, Silver, Copper, Aluminum, Nickel>>
           IN  /\ choice \in 1..6
               /\ choice \in 1..5 =>
                    /\ Len(attempt) = 1
                    /\ mainv.metal = <<name[choice],
                                       preset_metals(name[choice]).omega_p,
                                       preset_metals(name[choice]).gamma,
                                       preset_metals(name[choice]).epsilon_inf>>
               /\ choice = 6 =>
                    /\ Len(attempt) = 5
                    /\ \A i \in 3..5 : ~IsRaise(ParseFloat(attempt[i]))
                    /\ mainv.metal = <<attempt[2], ParseFloat(attempt[3]),
                                       ParseFloat(attempt[4]), ParseFloat(attempt[5])>>

\* a custom metal returned, its last number being nan
C10_Witness ==
    /\ MetalInfoReturned
    /\ Len(attempt) = 5
    /\ frame.choice = 6
    /\ frame.omega_p = Rat(5, 2)
    /\ mainv.metal[4] = NaN

====
